---- MODULE Spec2Model ----
(***************************************************************************)
(* A model of bpreveal's bedUtils.py: the ParallelCounter dispatcher with  *)
(* its _counterThread workers, getCounts, _findNonN and                    *)
(* makeWhitelistSegments.                                                  *)
(*                                                                         *)
(* A multiprocessing.Queue is a pipe fed by one feeder thread per          *)
(* producing process: put() appends to the producer's own buffer and the   *)
(* feeder moves the buffer into the pipe; get() and empty() see the pipe   *)
(* only.  inQueue has a single producer (the parent), so it is one FIFO    *)
(* sequence.  outQueue has one producer per worker: a worker's buf is its  *)
(* buffer and outPipe the pipe.  A process cannot exit before its feeder   *)
(* has emptied its buffer.                                                 *)
(*                                                                         *)
(* The worker processes run the same code and the parent never tells them  *)
(* apart, so the pool is a bag of worker states.                           *)
(***************************************************************************)
EXTENDS Integers, Sequences, FiniteSets, Bags, TLC

\* ------------------------------------------------------------------ bounds
MaxThreads == 2
MaxQueries == 3
MaxUnderflow == 1
PipeCap == 2
MaxTracks == 2
MaxTrackLen == 2
MaxSeqLen == 5
MaxChromLen == 2
MaxBlack == 2
MaxInputLength == 4
MaxSpacing == 2
MaxSegLen == 9
MaxRegions == 14
MaxPos == 6
MaxWidth == 4

VARIABLES
  numThreads,  \* ParallelCounter.numThreads
  inQueue,     \* ParallelCounter.inQueue: queries and None sentinels, FIFO
  outPipe,     \* ParallelCounter.outQueue as the parent's get()/empty() see it
  inFlight,    \* ParallelCounter.inFlight
  outDeque,    \* ParallelCounter.outDeque (index 1 is the left end)
  numInDeque,  \* ParallelCounter.numInDeque
  ppc,         \* where the parent is: "idle", "drain" (addQuery's loop), "join" (done)
  doneCalled,  \* done() has been called
  threads,     \* ParallelCounter.threads: the bag of the workers' states
  submitted,   \* history: the (chrom, start, end, idx) passed to addQuery, in order
  returned,    \* history: the (value, idx) returned by getResult, in order
  nMoved,      \* history: results moved from outQueue into outDeque
  nEmptyPops,  \* history: getResult calls that popped an empty outDeque
  fpc,         \* a function run on its own: "idle", "call", where it is, "done"
  arg,         \* its input
  res          \* its result, and its local variables while it runs

parent == <<numThreads, inFlight, outDeque, numInDeque, ppc, doneCalled,
            submitted, returned, nMoved, nEmptyPops>>
pure == <<fpc, arg, res>>
vars == <<parent, inQueue, outPipe, threads, pure>>

\* ----------------------------------------------------------- sequences
None == <<>>

\* The other end of a deque: its newest item.
First(s) == s[1]

Last(s) == s[Len(s)]

Front(s) == SubSeq(s, 1, Len(s) - 1)

RECURSIVE SumSeq(_)
SumSeq(s) == IF s = <<>> THEN 0 ELSE Head(s) + SumSeq(Tail(s))

Abs(x) == IF x < 0 THEN -x ELSE x

Min(a, b) == IF a < b THEN a ELSE b

Range(s) == { s[i] : i \in DOMAIN s }

\* All sequences over S of a length in lo..hi.
SeqsOf(S, lo, hi) == UNION { [1..n -> S] : n \in lo..hi }

\* A deque filled at the end it is popped from: a stack.
AppendRight(d, x) == d \o <<x>>

\* collections.deque: appendleft adds at index 1, pop takes the last element.
AppendLeft(d, x) == <<x>> \o d

\* ------------------------------------------------------------ getCounts
\* A track value is a pair <<isNaN, number>>.
Num(v) == <<FALSE, v>>

NaN == <<TRUE, 0>>

\* np.nan_to_num on one value: NaN becomes 0.
NanToNum(c) == IF c[1] THEN 0 ELSE c[2]

\* pyBigWig's values(chrom, start, end) refuses an interval that is not inside
\* the chromosome (RuntimeError: invalid interval bounds).
ValuesRaises(bw, chrom, start, end) ==
  \/ chrom \notin DOMAIN bw
  \/ start < 0
  \/ start >= end
  \/ end > Len(bw[chrom])

\* bw.values(chrom, start, end): the per-base values of [start, end).
Values(bw, chrom, start, end) == SubSeq(bw[chrom], start + 1, end)

\* The body of getCounts' loop for one bigwig: np.sum(np.nan_to_num(vals)).
TrackSum(bw, chrom, start, end) ==
  LET vals == Values(bw, chrom, start, end)
  IN  SumSeq([i \in 1..Len(vals) |-> NanToNum(vals[i])])

GetCountsRaises(chrom, start, end, bigwigs) ==
  \E i \in 1..Len(bigwigs) : ValuesRaises(bigwigs[i], chrom, start, end)

getCounts(chrom, start, end, bigwigs) ==
  SumSeq([i \in 1..Len(bigwigs) |-> TrackSum(bigwigs[i], chrom, start, end)])

\* What the docstring of _counterThread specifies: sum(abs(values)) per track.
TotalDoc(chrom, start, end, bigwigs) ==
  SumSeq([i \in 1..Len(bigwigs) |->
            LET vals == Values(bigwigs[i], chrom, start, end)
            IN  SumSeq([j \in 1..Len(vals) |-> Abs(NanToNum(vals[j]))])])

\* ------------------------------------------------ the dispatcher's inputs
\* The bigwig files the workers open (bigwigNames): two tracks over chr1.
BwFiles == << [chr1 |-> <<Num(1), NaN, Num(-2)>>],
              [chr1 |-> <<Num(2), Num(0), Num(-1)>>] >>

\* The regions a caller asks for; RegionOff runs off the end of chr1.
RegionA == <<"chr1", 0, 1>>

RegionB == <<"chr1", 1, 3>>

RegionOff == <<"chr1", 2, 4>>

\* The calls of addQuery a caller makes next.  Indices are opaque to the
\* dispatcher: the caller numbers a query by its position, or reuses index 0.
QueryChoices ==
  { <<RegionA, Len(submitted)>>, <<RegionB, 0>>, <<RegionOff, Len(submitted)>> }

IsQuery(item) == Len(item) = 4

\* ------------------------------------------------------------------ Init
\* A worker process as _counterThread starts it: at the top of its loop, an
\* empty deque, inDeque 0.
NewThread ==
  [pc |-> "get", query |-> None, outDeque |-> <<>>, inDeque |-> 0,
   fail |-> "none", sent |-> 0, buf |-> <<>>]

\* ParallelCounter.__init__: two queues, the counters at 0, an empty deque,
\* numThreads workers started.
InitDispatcher ==
  /\ numThreads \in 1..MaxThreads
  /\ inQueue = <<>>
  /\ outPipe = <<>>
  /\ inFlight = 0
  /\ outDeque = <<>>
  /\ numInDeque = 0
  /\ ppc = "idle"
  /\ doneCalled = FALSE
  /\ threads = [t \in {NewThread} |-> numThreads]
  /\ submitted = <<>>
  /\ returned = <<>>
  /\ nMoved = 0
  /\ nEmptyPops = 0

Init ==
  /\ InitDispatcher
  /\ fpc = "idle"
  /\ arg = None
  /\ res = None

\* ------------------------------------------------------------ the parent
\* multiprocessing.Queue() is built without a maxsize: 0, which means no limit.
InQueueMaxsize == 0

\* Queue.put blocks only on a queue with a positive maxsize that is full.
QueueFull(q, maxsize) == maxsize > 0 /\ Len(q) >= maxsize

\* addQuery up to its loop: put the query, count it.
AddQuery(query, idx) ==
  /\ ppc = "idle"
  /\ ~doneCalled
  /\ Len(submitted) < MaxQueries
  /\ ~QueueFull(inQueue, InQueueMaxsize)
  /\ inQueue' = Append(inQueue, query \o <<idx>>)
  /\ inFlight' = inFlight + 1
  /\ submitted' = Append(submitted, query \o <<idx>>)
  /\ ppc' = "drain"
  /\ UNCHANGED <<numThreads, outDeque, numInDeque, doneCalled, returned, nMoved,
                 nEmptyPops>>
  /\ UNCHANGED <<outPipe, threads, pure>>

\* A turn of addQuery's loop that forgets `self.inFlight -= 1`.
DrainOneUncounted ==
  /\ ppc = "drain"
  /\ outPipe # <<>>
  /\ outDeque' = AppendLeft(outDeque, Head(outPipe))
  /\ outPipe' = Tail(outPipe)
  /\ numInDeque' = numInDeque + 1
  /\ nMoved' = nMoved + 1
  /\ UNCHANGED <<numThreads, inFlight, ppc, doneCalled, submitted, returned,
                 nEmptyPops>>
  /\ UNCHANGED <<inQueue, threads, pure>>

\* One turn of addQuery's loop: outQueue.empty() is false, so get() has an item.
DrainOne ==
  /\ ppc = "drain"
  /\ outPipe # <<>>
  /\ outDeque' = AppendLeft(outDeque, Head(outPipe))
  /\ outPipe' = Tail(outPipe)
  /\ numInDeque' = numInDeque + 1
  /\ inFlight' = inFlight - 1
  /\ nMoved' = nMoved + 1
  /\ UNCHANGED <<numThreads, ppc, doneCalled, submitted, returned, nEmptyPops>>
  /\ UNCHANGED <<inQueue, threads, pure>>

\* addQuery's loop ends: outQueue.empty() is true, addQuery returns.
DrainEnd ==
  /\ ppc = "drain"
  /\ outPipe = <<>>
  /\ ppc' = "idle"
  /\ UNCHANGED <<numThreads, inFlight, outDeque, numInDeque, doneCalled,
                 submitted, returned, nMoved, nEmptyPops>>
  /\ UNCHANGED <<inQueue, outPipe, threads, pure>>

\* getResult has to fetch (inFlight is nonzero, nothing buffered) and a result
\* arrives: fetch it, count it, then pop the oldest buffered result.
GetResultFetch ==
  /\ ppc = "idle"
  /\ inFlight # 0 /\ numInDeque = 0
  /\ outPipe # <<>>
  /\ LET d == AppendLeft(outDeque, Head(outPipe))
     IN  /\ outDeque' = Front(d)
         /\ returned' = Append(returned, Last(d))
  /\ outPipe' = Tail(outPipe)
  /\ numInDeque' = (numInDeque + 1) - 1
  /\ inFlight' = inFlight - 1
  /\ nMoved' = nMoved + 1
  /\ UNCHANGED <<numThreads, ppc, doneCalled, submitted, nEmptyPops>>
  /\ UNCHANGED <<inQueue, threads, pure>>

\* getResult has to fetch and nothing arrives within QUEUE_TIMEOUT: get()
\* raises queue.Empty before anything is changed.
GetResultTimeout ==
  /\ ppc = "idle"
  /\ inFlight # 0 /\ numInDeque = 0
  /\ outPipe = <<>>
  /\ UNCHANGED vars

\* getResult without a fetch: numInDeque is decremented, then the deque is
\* popped; popping an empty deque raises IndexError after the decrement.
GetResultPop ==
  /\ ppc = "idle"
  /\ ~(inFlight # 0 /\ numInDeque = 0)
  /\ numInDeque > -MaxUnderflow
  /\ numInDeque' = numInDeque - 1
  /\ IF outDeque = <<>>
       THEN /\ nEmptyPops' = nEmptyPops + 1
            /\ UNCHANGED <<outDeque, returned>>
       ELSE /\ outDeque' = Front(outDeque)
            /\ returned' = Append(returned, Last(outDeque))
            /\ UNCHANGED nEmptyPops
  /\ UNCHANGED <<numThreads, inFlight, ppc, doneCalled, submitted, nMoved>>
  /\ UNCHANGED <<inQueue, outPipe, threads, pure>>

\* The sentinels done() puts: one None per worker.
Sentinels(n) == [i \in 1..n |-> None]

\* done() up to the joins: numThreads sentinels go behind what is queued.
Done ==
  /\ ppc = "idle"
  /\ ~doneCalled
  /\ inQueue' = inQueue \o Sentinels(numThreads)
  /\ doneCalled' = TRUE
  /\ ppc' = "join"
  /\ UNCHANGED <<numThreads, inFlight, outDeque, numInDeque, submitted,
                 returned, nMoved, nEmptyPops>>
  /\ UNCHANGED <<outPipe, threads, pure>>

\* A worker process has exited: it left its loop, or died, and its feeder
\* thread has written its buffer out.
Exited(t) == t.pc = "stopped" /\ t.buf = <<>>

\* done()'s joins return once every worker process has exited.
JoinReturn ==
  /\ ppc = "join"
  /\ \A t \in BagToSet(threads) : Exited(t)
  /\ ppc' = "idle"
  /\ UNCHANGED <<numThreads, inFlight, outDeque, numInDeque, doneCalled,
                 submitted, returned, nMoved, nEmptyPops>>
  /\ UNCHANGED <<inQueue, outPipe, threads, pure>>

\* ----------------------------------------------------------- the workers
\* The pool with one worker in state t moved to state u.
Step(t, u) == (threads (-) SetToBag({t})) (+) SetToBag({u})

\* The inner loop written as the final loop is, with outDeque[-1] for
\* outDeque.pop(): the result is put and stays in the deque.
RECURSIVE PutLoopPeek(_, _, _)
PutLoopPeek(puts, deque, n) ==
  IF n > 0
    THEN PutLoopPeek(Append(puts, Last(deque)), deque, n - 1)
    ELSE <<puts, deque, n>>

\* The worker's inner loop, `while outQueue.empty and inDeque > 0`: the bound
\* method outQueue.empty is always true, so the loop runs until inDeque is 0.
\* Returns <<what was put, the deque left, inDeque left>>.
RECURSIVE PutLoop(_, _, _)
PutLoop(puts, deque, n) ==
  IF n > 0
    THEN PutLoop(Append(puts, Last(deque)), Front(deque), n - 1)
    ELSE <<puts, deque, n>>

\* The loop after the break: `while inDeque: outQueue.put(outDeque[-1])`
\* puts the last element without popping it.
RECURSIVE FinalLoop(_, _, _)
FinalLoop(puts, deque, n) ==
  IF n # 0
    THEN FinalLoop(Append(puts, Last(deque)), deque, n - 1)
    ELSE <<puts, deque, n>>

\* A result built from the wrong field of the query: (r, end).
MakeResultEnd(r, query) == <<r, query[3]>>

\* The result a worker builds for a query: (r, idx).
MakeResult(r, query) == <<r, query[4]>>

\* inQueue.get returns a query: the worker holds it.
TakeQuery(t) ==
  /\ t.pc = "get"
  /\ inQueue # <<>>
  /\ IsQuery(Head(inQueue))
  /\ inQueue' = Tail(inQueue)
  /\ threads' = Step(t, [t EXCEPT !.pc = "compute", !.query = Head(inQueue)])
  /\ UNCHANGED <<parent, pure, outPipe>>

\* inQueue.get returns None: break, run the final loop, close the files.
TakeSentinel(t) ==
  /\ t.pc = "get"
  /\ inQueue # <<>>
  /\ ~IsQuery(Head(inQueue))
  /\ inQueue' = Tail(inQueue)
  /\ LET f == FinalLoop(<<>>, t.outDeque, t.inDeque)
     IN  threads' = Step(t, [t EXCEPT !.pc = "stopped", !.sent = t.sent + 1,
                                       !.buf = t.buf \o f[1],
                                       !.outDeque = f[2], !.inDeque = f[3]])
  /\ UNCHANGED <<parent, pure, outPipe>>

\* inQueue.get finds nothing within QUEUE_TIMEOUT: queue.Empty is raised and
\* nothing catches it; the worker process ends.
IdleTimeout(t) ==
  /\ t.pc = "get"
  /\ inQueue = <<>>
  /\ threads' = Step(t, [t EXCEPT !.pc = "stopped", !.fail = "Empty"])
  /\ UNCHANGED <<parent, pure, inQueue, outPipe>>

\* The case (chrom, start, end, idx) of the worker's match: getCounts, then
\* appendleft and the put loop.
ComputeOk(t) ==
  /\ t.pc = "compute"
  /\ ~GetCountsRaises(t.query[1], t.query[2], t.query[3], BwFiles)
  /\ LET r == getCounts(t.query[1], t.query[2], t.query[3], BwFiles)
         p == PutLoop(<<>>, AppendLeft(t.outDeque, MakeResult(r, t.query)),
                      t.inDeque + 1)
     IN  threads' = Step(t, [t EXCEPT !.pc = "get", !.query = None,
                                       !.buf = t.buf \o p[1],
                                       !.outDeque = p[2], !.inDeque = p[3]])
  /\ UNCHANGED <<parent, pure, inQueue, outPipe>>

\* getCounts raises: nothing in _counterThread catches it; the worker process
\* ends with the query it held.
ComputeRaises(t) ==
  /\ t.pc = "compute"
  /\ GetCountsRaises(t.query[1], t.query[2], t.query[3], BwFiles)
  /\ threads' = Step(t, [t EXCEPT !.pc = "stopped", !.fail = "error"])
  /\ UNCHANGED <<parent, pure, inQueue, outPipe>>

\* A worker's feeder thread writes the head of its buffer to the pipe; the
\* write waits while the pipe is full.
Feed(t) ==
  /\ t.buf # <<>>
  /\ Len(outPipe) < PipeCap
  /\ outPipe' = Append(outPipe, Head(t.buf))
  /\ threads' = Step(t, [t EXCEPT !.buf = Tail(t.buf)])
  /\ UNCHANGED <<parent, pure, inQueue>>

Next ==
  \/ \E c \in QueryChoices : AddQuery(c[1], c[2])
  \/ DrainOne
  \/ DrainEnd
  \/ GetResultFetch
  \/ GetResultTimeout
  \/ GetResultPop
  \/ Done
  \/ JoinReturn
  \/ \E t \in BagToSet(threads) : TakeQuery(t)
  \/ \E t \in BagToSet(threads) : TakeSentinel(t)
  \/ \E t \in BagToSet(threads) : IdleTimeout(t)
  \/ \E t \in BagToSet(threads) : ComputeOk(t)
  \/ \E t \in BagToSet(threads) : ComputeRaises(t)
  \/ \E t \in BagToSet(threads) : Feed(t)

Spec == Init /\ [][Next]_vars


\* ============================================================ getCounts
dispatcher == <<parent, inQueue, outPipe, threads>>

\* The dispatcher is not running while a function is called on its own.
NoDispatcher == InitDispatcher /\ numThreads = 1

\* The per-base values a track can hold.
TrackValues == {Num(-1), Num(2), NaN}

\* Opened bigwigs: up to MaxTracks tracks over a chr1 of MaxTrackLen bases.
BigwigLists ==
  SeqsOf({ [chr1 |-> v] : v \in [1..MaxTrackLen -> TrackValues] }, 1, MaxTracks)

\* The intervals asked for, some of them off the chromosome or empty.
CountIntervals ==
  { <<"chr1", start, end>> : start \in 0..MaxTrackLen, end \in 0..(MaxTrackLen + 1) }

InitCounts ==
  /\ NoDispatcher
  /\ fpc = "call"
  /\ arg \in { <<i, b>> : i \in CountIntervals, b \in BigwigLists }
  /\ res = None

\* getCounts(interval, bigwigs) returns total.
GetCountsReturns ==
  /\ fpc = "call"
  /\ ~GetCountsRaises(arg[1][1], arg[1][2], arg[1][3], arg[2])
  /\ res' = getCounts(arg[1][1], arg[1][2], arg[1][3], arg[2])
  /\ fpc' = "done"
  /\ UNCHANGED <<arg, dispatcher>>

\* bw.values raises and getCounts lets it through.
GetCountsFails ==
  /\ fpc = "call"
  /\ GetCountsRaises(arg[1][1], arg[1][2], arg[1][3], arg[2])
  /\ res' = "RuntimeError"
  /\ fpc' = "raised"
  /\ UNCHANGED <<arg, dispatcher>>

NextCounts == GetCountsReturns \/ GetCountsFails

SpecCounts == InitCounts /\ [][NextCounts]_vars

\* ============================================================= _findNonN
\* isValid: the bases that are neither N nor n.
IsValid(inSeq) ==
  [i \in 1..Len(inSeq) |-> ~(inSeq[i] = "N" \/ inSeq[i] = "n")]

\* starts[0] = isValid[0]; starts[1:] = isValid[1:] and not isValid[:-1].
Starts(isValid) ==
  [i \in 1..Len(isValid) |->
     IF i = 1 THEN isValid[1] ELSE isValid[i] /\ ~isValid[i - 1]]

\* ends[-1] = isValid[-1]; ends[:-1] = isValid[:-1] and not isValid[1:].
Ends(isValid) ==
  [i \in 1..Len(isValid) |->
     IF i = Len(isValid) THEN isValid[i] ELSE isValid[i] /\ ~isValid[i + 1]]

\* np.flatnonzero: the 0-based indices of the true entries, ascending.
FlatNonzero(v) ==
  SelectSeq([i \in 1..Len(v) |-> i - 1], LAMBDA k : v[k + 1])

\* zip stops at the shorter of its arguments.
Zip(a, b) == [i \in 1..Min(Len(a), Len(b)) |-> <<a[i], b[i]>>]

\* An interval that keeps the last valid base as its end.
IntervalClosed(chromName, startPos, stopPos) == <<chromName, startPos, stopPos>>

\* pybedtools.Interval(chromName, startPos, stopPos + 1).
Interval(chromName, startPos, stopPos) == <<chromName, startPos, stopPos + 1>>

\* starts[0] = isValid[0] on an empty array is an IndexError.
FindNonNRaises(inSeq) == Len(inSeq) = 0

_findNonN(inSeq, chromName) ==
  LET isValid == IsValid(inSeq)
      endPoses == FlatNonzero(Ends(isValid))
      startPoses == FlatNonzero(Starts(isValid))
      pairs == Zip(startPoses, endPoses)
  IN  [i \in 1..Len(pairs) |-> Interval(chromName, pairs[i][1], pairs[i][2])]

Bases == {"A", "N", "n"}

InitFindNonN ==
  /\ NoDispatcher
  /\ fpc = "call"
  /\ arg \in { <<inSeq, "chr1">> : inSeq \in SeqsOf(Bases, 0, MaxSeqLen) }
  /\ res = None

FindNonNReturns ==
  /\ fpc = "call"
  /\ ~FindNonNRaises(arg[1])
  /\ res' = _findNonN(arg[1], arg[2])
  /\ fpc' = "done"
  /\ UNCHANGED <<arg, dispatcher>>

FindNonNFails ==
  /\ fpc = "call"
  /\ FindNonNRaises(arg[1])
  /\ res' = "IndexError"
  /\ fpc' = "raised"
  /\ UNCHANGED <<arg, dispatcher>>

NextFindNonN == FindNonNReturns \/ FindNonNFails

SpecFindNonN == InitFindNonN /\ [][NextFindNonN]_vars

\* ================================================= makeWhitelistSegments
\* A genome is the sequence of its (name, bases) in the order of the file.
References(genome) == [i \in 1..Len(genome) |-> genome[i][1]]

Fetch(genome, chromName) ==
  LET i == CHOOSE j \in 1..Len(genome) : genome[j][1] = chromName
  IN  genome[i][2]

\* The order sorted() puts the chromosome names in.
ChromOrder == <<"chr1", "chr2", "chrM">>

Sorted(names) == SelectSeq(ChromOrder, LAMBDA c : c \in Range(names))

\* A blacklist that is not split by chromosome: every interval, whatever its
\* chromosome.
BlacklistsAnyChrom(blacklist, chromName) == blacklist

\* blacklistsByChrom[chromName]: the intervals of that chromosome, in order
\* (none when the name is not a key).
BlacklistsByChrom(blacklist, chromName) ==
  SelectSeq(blacklist, LAMBDA b : b[1] = chromName)

\* seqVector[start:endPt] = ord("N")
SetSliceN(seqVector, start, endPt) ==
  [i \in 1..Len(seqVector) |->
     IF start <= i - 1 /\ i - 1 < endPt THEN "N" ELSE seqVector[i]]

\* The body of the loop over a chromosome's blacklist intervals.
ApplyBlackInterval(seqVector, blackInterval) ==
  IF blackInterval[2] >= Len(seqVector)
    THEN seqVector
    ELSE SetSliceN(seqVector, blackInterval[2],
                   Min(Len(seqVector), blackInterval[3]))

RECURSIVE ApplyBlacklist(_, _)
ApplyBlacklist(seqVector, intervals) ==
  IF intervals = <<>> THEN seqVector
  ELSE ApplyBlacklist(ApplyBlackInterval(seqVector, Head(intervals)),
                      Tail(intervals))

\* The loop over sorted(genome.references): segments.extend(_findNonN(...)).
RECURSIVE SegmentsOf(_, _, _)
SegmentsOf(genome, names, blacklist) ==
  IF names = <<>> THEN <<>>
  ELSE LET chromName == Head(names)
           seqVector == ApplyBlacklist(Fetch(genome, chromName),
                                       BlacklistsByChrom(blacklist, chromName))
       IN  _findNonN(seqVector, chromName)
             \o SegmentsOf(genome, Tail(names), blacklist)

makeWhitelistSegments(genome, blacklist) ==
  SegmentsOf(genome, Sorted(References(genome)), blacklist)

\* Genomes: chr2 comes first in the file; chr1 is any sequence of A and N.
Chr2Choices == { <<"A">>, <<"A", "N", "A">> }

Genomes ==
  { << <<"chr2", c2>>, <<"chr1", c1>> >> :
      c1 \in SeqsOf({"A", "N"}, 1, MaxChromLen), c2 \in Chr2Choices }

\* Blacklist intervals: on either chromosome, some past its end, some
\* starting at or beyond it, and one on a chromosome the genome lacks.
BlackIntervals ==
  { <<c, start, end>> : c \in {"chr1", "chr2"}, start \in 0..MaxChromLen,
                        end \in 1..(MaxChromLen + 1) }
    \cup { <<"chrM", 0, 1>> }

Blacklists ==
  SeqsOf({ b \in BlackIntervals : b[2] < b[3] }, 0, MaxBlack)

InitWhitelist ==
  /\ NoDispatcher
  /\ fpc = "call"
  /\ arg \in { <<g, b>> : g \in Genomes, b \in Blacklists }
  /\ res = None

MakeWhitelistSegmentsReturns ==
  /\ fpc = "call"
  /\ res' = makeWhitelistSegments(arg[1], arg[2])
  /\ fpc' = "done"
  /\ UNCHANGED <<arg, dispatcher>>

NextWhitelist == MakeWhitelistSegmentsReturns

SpecWhitelist == InitWhitelist /\ [][NextWhitelist]_vars

\* ========================================================== tileSegments
\* padding = (inputLength - outputLength) // 2
Padding(inputLength, outputLength) == (inputLength - outputLength) \div 2

\* A segment handed on as it is, without the padding taken off.
KeepSegment(s, padding) == s

\* shrinkSegment's interval: padding bases taken off each side.
ShrinkSegment(s, padding) == <<s[1], s[2] + padding, s[3] - padding>>

\* A filter that also drops the segments that shrink to exactly outputLength.
ShrinkDropsExact(s, padding, outputLength) ==
  (s[3] - padding) - (s[2] + padding) <= outputLength

\* shrinkSegment returns False, and each() drops the segment.
ShrinkDrops(s, padding, outputLength) ==
  (s[3] - padding) - (s[2] + padding) < outputLength

\* The indices of the segments that each(shrinkSegment) keeps, in order.
Survivors(segments, padding, outputLength) ==
  SelectSeq([i \in 1..Len(segments) |-> i],
            LAMBDA i : ~ShrinkDrops(segments[i], padding, outputLength))

\* A step that leaves no space between the windows.
NextStartNoSpacing(startPos, spacing, outputLength) == startPos + outputLength

\* A loop that never moves on: startPos stays where it is.
NextStartStuck(startPos, spacing, outputLength) == startPos

\* startPos += spacing + outputLength
NextStart(startPos, spacing, outputLength) == startPos + spacing + outputLength

\* No additional region is ever placed.
NoTail(startPos, sEnd) == FALSE

\* A last region after every segment, wherever the loop stopped.
TailAlways(startPos, sEnd) == TRUE

\* `if startPos < s.end`: another region is wanted inside this segment.
WantsTail(startPos, sEnd) == startPos < sEnd

\* createTilingRegions: the segments are makeWhitelistSegments(genome).
CreateTilingSegments(genome) == makeWhitelistSegments(genome, <<>>)

\* Genomes createTilingRegions is called on.
TilingGenomes ==
  { << <<"chr1", <<"N", "A", "A", "A", "A", "N">> >> >>,
    << <<"chr1", <<"A", "A", "A", "N", "A", "A", "A", "A", "A">> >> >> }

\* The segments to tile: one segment of chr1 of 1..MaxSegLen bases, alone or
\* followed by a segment of chr2; or the segments of a genome.
TilingSegments ==
  LET first == { <<"chr1", start, start + w>> : start \in {0, 3}, w \in 1..MaxSegLen }
  IN  { <<f>> : f \in first }
        \cup { <<f, <<"chr2", 5, 9>> >> : f \in first }
        \cup { CreateTilingSegments(g) : g \in TilingGenomes }

\* The example of tileSegments' docstring: a 30 bp segment, outputLength 6,
\* inputLength 10, spacing 5.
TilingExample ==
  [inputLength |-> 10, outputLength |-> 6,
   segments |-> << <<"chr1", 0, 30>> >>, spacing |-> 5]

\* Calls with inputLength >= outputLength > 0 and any spacing, negative ones
\* down to below -outputLength.
TilingCalls ==
  { [inputLength |-> il, outputLength |-> ol, segments |-> segs, spacing |-> sp] :
      il \in 1..MaxInputLength, ol \in 1..MaxInputLength,
      segs \in TilingSegments, sp \in (-(MaxInputLength + 1))..MaxSpacing }

InitTiling ==
  /\ NoDispatcher
  /\ fpc = "call"
  /\ arg \in { c \in TilingCalls : c.inputLength >= c.outputLength }
               \cup {TilingExample}
  /\ res = None

\* The shrunk segment the loop is at.
CurSegment == res.shrunk[res.i]

\* tileSegments up to its for loop: padding, shrunkSegments, regions = [].
\* from and isTail are history: the index in segments of the segment each
\* region was cut from, and whether the region is the additional one.
TileShrink ==
  /\ fpc = "call"
  /\ LET padding == Padding(arg.inputLength, arg.outputLength)
         kept == Survivors(arg.segments, padding, arg.outputLength)
     IN  res' = [shrunk |-> [k \in 1..Len(kept) |->
                               ShrinkSegment(arg.segments[kept[k]], padding)],
                 shrunkFrom |-> kept,
                 i |-> 0, startPos |-> 0, endPos |-> 0,
                 regions |-> <<>>, from |-> <<>>, isTail |-> <<>>]
  /\ fpc' = "for"
  /\ UNCHANGED <<arg, dispatcher>>

\* The for loop takes the next shrunk segment: startPos, endPos.
TileNextSegment ==
  /\ fpc = "for"
  /\ res.i < Len(res.shrunk)
  /\ LET s == res.shrunk[res.i + 1]
     IN  res' = [res EXCEPT !.i = res.i + 1,
                            !.startPos = s[2],
                            !.endPos = s[2] + arg.outputLength]
  /\ fpc' = "while"
  /\ UNCHANGED <<arg, dispatcher>>

\* One turn of `while endPos < s.end`: a region, and the next position.
TileWhileBody ==
  /\ fpc = "while"
  /\ res.endPos < CurSegment[3]
  /\ Len(res.regions) < MaxRegions
  /\ LET next == NextStart(res.startPos, arg.spacing, arg.outputLength)
     IN  res' = [res EXCEPT
                   !.regions = Append(@, <<CurSegment[1], res.startPos, res.endPos>>),
                   !.from = Append(@, res.shrunkFrom[res.i]),
                   !.isTail = Append(@, FALSE),
                   !.startPos = next,
                   !.endPos = next + arg.outputLength]
  /\ UNCHANGED <<fpc, arg, dispatcher>>

\* The while loop ends; a last region is put at the end of the segment when
\* startPos is still inside it.
TileWhileEnd ==
  /\ fpc = "while"
  /\ ~(res.endPos < CurSegment[3])
  /\ IF WantsTail(res.startPos, CurSegment[3])
       THEN LET endPos == CurSegment[3]
                startPos == endPos - arg.outputLength
            IN  res' = [res EXCEPT
                          !.regions = Append(@, <<CurSegment[1], startPos, endPos>>),
                          !.from = Append(@, res.shrunkFrom[res.i]),
                          !.isTail = Append(@, TRUE),
                          !.startPos = startPos,
                          !.endPos = endPos]
       ELSE res' = res
  /\ fpc' = "for"
  /\ UNCHANGED <<arg, dispatcher>>

\* The for loop is over: return BedTool(regions).
TileReturn ==
  /\ fpc = "for"
  /\ res.i = Len(res.shrunk)
  /\ fpc' = "done"
  /\ UNCHANGED <<arg, res, dispatcher>>

NextTiling ==
  \/ TileShrink
  \/ TileNextSegment
  \/ TileWhileBody
  \/ TileWhileEnd
  \/ TileReturn

SpecTiling == InitTiling /\ [][NextTiling]_vars

\* ================================================================ resize
\* The start and end resize computes for a mode it supports.
ResizedBounds(start, end, mode, width) ==
  CASE mode = "none" -> <<start, end>>
    [] mode = "center" ->
         LET center == (end + start) \div 2
             newStart == center - width \div 2
         IN  <<newStart, newStart + width>>
    [] mode = "start" ->
         LET newStart == start - width \div 2
         IN  <<newStart, newStart + width>>

\* The two `assert False`: a width that does not fit in mode "none", or a
\* mode that is none of the three.
ResizeAsserts(start, end, mode, width) ==
  \/ mode = "none" /\ end - start # width
  \/ mode \notin {"none", "center", "start"}

\* `if start <= 0 or end >= genome.get_reference_length(interval.chrom)`
OffEdge(start, end, referenceLength) == start <= 0 \/ end >= referenceLength

\* The input interval overwritten with the new start and end.
MutateInterval(heap, ref, start, end) ==
  <<[heap EXCEPT ![ref].start = start, ![ref].end = end], ref>>

\* pybedtools.Interval(interval.chrom, start, end, name=..., score=...,
\* strand=...): a new object; the heap with it, and its reference.
NewInterval(heap, ref, start, end) ==
  <<Append(heap, [chrom |-> heap[ref].chrom, start |-> start, end |-> end,
                  name |-> heap[ref].name, score |-> heap[ref].score,
                  strand |-> heap[ref].strand]),
    Len(heap) + 1>>

ResizeModes == {"none", "center", "start", "end"}

\* Calls of resize: the heap holds the interval passed in, an interval of a
\* chromosome of referenceLength bases.
ResizeCalls ==
  { [heap |-> << [chrom |-> "chr1", start |-> st, end |-> en, name |-> "peak",
                  score |-> "0", strand |-> sd] >>,
     interval |-> 1, mode |-> m, width |-> w, referenceLength |-> len] :
      st \in 0..MaxPos, en \in 1..MaxPos, len \in 1..MaxPos, m \in ResizeModes,
      w \in 0..MaxWidth, sd \in {"+", "-"} }

InitResize ==
  /\ NoDispatcher
  /\ fpc = "call"
  /\ arg \in { c \in ResizeCalls :
                 /\ c.heap[1].start < c.heap[1].end
                 /\ c.heap[1].end <= c.referenceLength }
  /\ res = None

\* An assertion of resize fails.
ResizeFails ==
  /\ fpc = "call"
  /\ ResizeAsserts(arg.heap[arg.interval].start, arg.heap[arg.interval].end,
                   arg.mode, arg.width)
  /\ res' = [kind |-> "AssertionError", ref |-> 0, heap |-> arg.heap]
  /\ fpc' = "raised"
  /\ UNCHANGED <<arg, dispatcher>>

\* resize returns False: off the edge of the chromosome.
ResizeReturnsFalse ==
  /\ fpc = "call"
  /\ LET interval == arg.heap[arg.interval]
     IN  /\ ~ResizeAsserts(interval.start, interval.end, arg.mode, arg.width)
         /\ LET b == ResizedBounds(interval.start, interval.end, arg.mode, arg.width)
            IN  OffEdge(b[1], b[2], arg.referenceLength)
  /\ res' = [kind |-> "False", ref |-> 0, heap |-> arg.heap]
  /\ fpc' = "done"
  /\ UNCHANGED <<arg, dispatcher>>

\* resize returns the resized interval.
ResizeReturnsInterval ==
  /\ fpc = "call"
  /\ LET interval == arg.heap[arg.interval]
     IN  /\ ~ResizeAsserts(interval.start, interval.end, arg.mode, arg.width)
         /\ LET b == ResizedBounds(interval.start, interval.end, arg.mode, arg.width)
                made == NewInterval(arg.heap, arg.interval, b[1], b[2])
            IN  /\ ~OffEdge(b[1], b[2], arg.referenceLength)
                /\ res' = [kind |-> "Interval", ref |-> made[2], heap |-> made[1]]
  /\ fpc' = "done"
  /\ UNCHANGED <<arg, dispatcher>>

NextResize ==
  \/ ResizeFails
  \/ ResizeReturnsFalse
  \/ ResizeReturnsInterval

SpecResize == InitResize /\ [][NextResize]_vars

\* ======================================= motifScan, motifSeqletCutoffs
\* A config is a function from the keys it has to their values; the value of
\* a key is what the user wrote for it.
Given(k) == <<"config", k>>

ConfigOf(keys) == [k \in keys |-> Given(k)]

\* The keys main reads with config[...], in the order the arguments of
\* motifUtils.seqletCutoffs are evaluated.
CutoffArgKeys ==
  <<"modisco-h5", "modisco-contrib-h5", "patterns", "seq-match-quantile",
    "contrib-match-quantile", "contrib-magnitude-quantile", "trim-threshold",
    "trim-padding", "background-probs">>

\* The keys of scan-settings, in the order scanPatterns' arguments are read.
ScanArgKeys == <<"scan-contrib-h5", "hits-tsv", "num-threads">>

\* Cutoff settings: some of these keys may be left out, the others are there.
CutoffKeysVaried ==
  {"modisco-h5", "modisco-contrib-h5", "trim-threshold", "trim-padding",
   "seqlets-tsv", "quantile-json"}

CutoffSettingsChoices ==
  { ConfigOf((Range(CutoffArgKeys) \ CutoffKeysVaried) \cup ks) :
      ks \in SUBSET CutoffKeysVaried }

ScanSettingsChoices == { ConfigOf(ks) : ks \in SUBSET Range(ScanArgKeys) }

\* A function with one more key.
With(f, k, v) == [x \in DOMAIN f \cup {k} |-> IF x = k THEN v ELSE f[x]]

\* The configs of motifScan: each top-level key there or not.
MotifScanConfigs ==
  LET verbosity == { <<>>, ConfigOf({"verbosity"}) }
      withJson == { c : c \in verbosity }
                    \cup { With(c, "seqlet-cutoff-json", Given("seqlet-cutoff-json")) :
                             c \in verbosity }
      withCutoffs == withJson
                       \cup { With(c, "seqlet-cutoff-settings", cs) :
                                c \in withJson, cs \in CutoffSettingsChoices }
  IN  withCutoffs
        \cup { With(c, "scan-settings", ss) :
                 c \in withCutoffs, ss \in ScanSettingsChoices }

\* The configs of motifSeqletCutoffs: the cutoff settings at top level.
MotifSeqletCutoffsConfigs ==
  CutoffSettingsChoices
    \cup { With(cs, "verbosity", Given("verbosity")) : cs \in CutoffSettingsChoices }

InitMotif ==
  /\ NoDispatcher
  /\ fpc = "call"
  /\ arg \in { [program |-> "motifScan", config |-> c] : c \in MotifScanConfigs }
       \cup { [program |-> "motifSeqletCutoffs", config |-> c] :
                c \in MotifSeqletCutoffsConfigs }
  /\ res = [events |-> <<>>, error |-> "none", scanPatternDict |-> None]

\* The first key of keys that cfg lacks, as a one-element sequence; <<>> when
\* it has them all.  cfg[key] raises KeyError for it.
FirstMissing(cfg, keys) ==
  LET missing == SelectSeq(keys, LAMBDA k : k \notin DOMAIN cfg)
  IN  IF missing = <<>> THEN <<>> ELSE <<Head(missing)>>

\* main stops with an exception.
Raise(error) ==
  /\ res' = [res EXCEPT !.error = error]
  /\ fpc' = "raised"

\* A log that puts the newest event first.
EventFirst(e) == [res EXCEPT !.events = <<e>> \o @]

\* Something main does outside itself is added to the events.
Event(e) == [res EXCEPT !.events = Append(@, e)]

\* A check that lets every config through.
NeverBoth(config) == FALSE

\* The assertion of motifScan.main fails: seqlet-cutoff-json is named next to
\* seqlet-cutoff-settings.
BothSources(config) ==
  "seqlet-cutoff-settings" \in DOMAIN config /\ "seqlet-cutoff-json" \in DOMAIN config

\* The arguments of motifUtils.seqletCutoffs: the nine config values, tsvFname.
SeqletCutoffsArgs(cutoffConfig) ==
  [k \in 1..Len(CutoffArgKeys) |-> cutoffConfig[CutoffArgKeys[k]]]
    \o << IF "seqlets-tsv" \in DOMAIN cutoffConfig
            THEN cutoffConfig["seqlets-tsv"] ELSE None >>

\* setVerbosity(config["verbosity"]), first line of both mains.
SetVerbosity ==
  /\ fpc = "call"
  /\ IF "verbosity" \in DOMAIN arg.config
       THEN /\ fpc' = (IF arg.program = "motifScan" THEN "sources" ELSE "cutoffs")
            /\ UNCHANGED res
       ELSE Raise("KeyError")
  /\ UNCHANGED <<arg, dispatcher>>

\* motifScan.main, `if "seqlet-cutoff-settings" in config:` with its assert.
ScanSources ==
  /\ fpc = "sources"
  /\ IF "seqlet-cutoff-settings" \in DOMAIN arg.config
       THEN IF BothSources(arg.config)
              THEN Raise("AssertionError")
              ELSE fpc' = "cutoffs" /\ UNCHANGED res
       ELSE fpc' = "load" /\ UNCHANGED res
  /\ UNCHANGED <<arg, dispatcher>>

\* The settings the cutoffs are computed from: the seqlet-cutoff-settings
\* block in motifScan, the config itself in motifSeqletCutoffs.
CutoffConfig ==
  IF arg.program = "motifScan"
    THEN arg.config["seqlet-cutoff-settings"] ELSE arg.config

\* The call of motifUtils.seqletCutoffs: a config value that is not there is
\* a KeyError before the call; the call returns the patterns or raises.
SeqletCutoffs ==
  /\ fpc = "cutoffs"
  /\ IF FirstMissing(CutoffConfig, CutoffArgKeys) # <<>>
       THEN Raise("KeyError")
       ELSE \E returns \in BOOLEAN :
              LET called == Event(<<"seqletCutoffs", SeqletCutoffsArgs(CutoffConfig)>>)
              IN  IF returns
                    THEN /\ res' = [called EXCEPT !.scanPatternDict = "computed"]
                         /\ fpc' = "quantile"
                    ELSE /\ res' = [called EXCEPT !.error = "seqletCutoffs"]
                         /\ fpc' = "raised"
  /\ UNCHANGED <<arg, dispatcher>>

\* `if "quantile-json" in ...`: the patterns are dumped to that file, or the
\* file cannot be written.
QuantileJson ==
  /\ fpc = "quantile"
  /\ IF "quantile-json" \in DOMAIN CutoffConfig
       THEN \E written \in BOOLEAN :
              IF written
                THEN /\ res' = Event(<<"writeQuantileJson",
                                       CutoffConfig["quantile-json"],
                                       res.scanPatternDict>>)
                     /\ fpc' = (IF arg.program = "motifScan" THEN "scan" ELSE "done")
                ELSE Raise("OSError")
       ELSE /\ fpc' = (IF arg.program = "motifScan" THEN "scan" ELSE "done")
            /\ UNCHANGED res
  /\ UNCHANGED <<arg, dispatcher>>

\* motifScan.main's else branch: the patterns are read from seqlet-cutoff-json.
ScanLoadJson ==
  /\ fpc = "load"
  /\ IF "seqlet-cutoff-json" \notin DOMAIN arg.config
       THEN Raise("KeyError")
       ELSE \E loaded \in BOOLEAN :
              IF loaded
                THEN /\ res' = [Event(<<"loadCutoffJson",
                                        arg.config["seqlet-cutoff-json"]>>)
                                  EXCEPT !.scanPatternDict = "loaded"]
                     /\ fpc' = "scan"
                ELSE Raise("OSError")
  /\ UNCHANGED <<arg, dispatcher>>

\* The end of motifScan.main: scanConfig = config["scan-settings"] and the
\* call of motifUtils.scanPatterns, which returns or raises.
ScanPatterns ==
  /\ fpc = "scan"
  /\ IF \/ "scan-settings" \notin DOMAIN arg.config
        \/ FirstMissing(arg.config["scan-settings"], ScanArgKeys) # <<>>
       THEN Raise("KeyError")
       ELSE LET scanConfig == arg.config["scan-settings"]
                called == Event(<<"scanPatterns", scanConfig["scan-contrib-h5"],
                                  res.scanPatternDict, scanConfig["hits-tsv"],
                                  scanConfig["num-threads"]>>)
            IN  \E returns \in BOOLEAN :
                  IF returns
                    THEN res' = called /\ fpc' = "done"
                    ELSE /\ res' = [called EXCEPT !.error = "scanPatterns"]
                         /\ fpc' = "raised"
  /\ UNCHANGED <<arg, dispatcher>>

NextMotif ==
  \/ SetVerbosity
  \/ ScanSources
  \/ SeqletCutoffs
  \/ QuantileJson
  \/ ScanLoadJson
  \/ ScanPatterns

SpecMotif == InitMotif /\ [][NextMotif]_vars

\* ============================================================== ushuffle
\* Threads of one process call shuffleString and shuffleOHE; arg is the number
\* of threads, res holds _SHUFFLE_LOCK, where each thread is and how the
\* last call that ended did end.
MaxShufflers == 3
MaxShuffleCalls == 1

\* The widest alphabet shuffleOHE accepts.
AlphabetLimit == 8

\* The widths of the one-hot arrays the callers pass: DNA, and one too wide.
AlphabetLengths == {4, 9}

Shufflers == 1..arg

\* _SHUFFLE_LOCK = threading.Lock(): unlocked, and every thread about to call.
InitShuffle ==
  /\ NoDispatcher
  /\ fpc = "shuffle"
  /\ arg \in 1..MaxShufflers
  /\ res = [lock |-> FALSE,
            pc   |-> [t \in 1..arg |-> "idle"],
            fn   |-> [t \in 1..arg |-> None],
            left |-> [t \in 1..arg |-> MaxShuffleCalls],
            last |-> "none"]

\* A `with` block that keeps the lock when it is left.
KeepLocked(lock) == lock

\* The end of `with _SHUFFLE_LOCK:`, left by return or by exception: release().
Release(lock) == FALSE

\* The threads inside libushuffle.shuffleStr or libushuffle.shuffleOhe.
InNative == { t \in Shufflers : res.pc[t] = "native" }

\* shuffleString up to its `with`: the bytes of the sequence are taken.
ShuffleStringCall(t) ==
  /\ fpc = "shuffle"
  /\ res.pc[t] = "idle" /\ res.left[t] > 0
  /\ res' = [res EXCEPT !.pc[t] = "lock", !.fn[t] = "shuffleStr",
                        !.left[t] = @ - 1]
  /\ UNCHANGED <<fpc, arg, dispatcher>>

\* shuffleOHE up to its `with`: the assertion on the alphabet comes first.
ShuffleOHECall(t, alphabetLength) ==
  /\ fpc = "shuffle"
  /\ res.pc[t] = "idle" /\ res.left[t] > 0
  /\ IF alphabetLength <= AlphabetLimit
       THEN res' = [res EXCEPT !.pc[t] = "lock", !.fn[t] = "shuffleOhe",
                               !.left[t] = @ - 1]
       ELSE res' = [res EXCEPT !.last = "AssertionError", !.left[t] = @ - 1]
  /\ UNCHANGED <<fpc, arg, dispatcher>>

\* `with _SHUFFLE_LOCK:` acquires the lock once it is free and enters the
\* native call.
Acquire(t) ==
  /\ fpc = "shuffle"
  /\ res.pc[t] = "lock"
  /\ ~res.lock
  /\ res' = [res EXCEPT !.lock = TRUE, !.pc[t] = "native"]
  /\ UNCHANGED <<fpc, arg, dispatcher>>

\* The native call returns: the `with` block ends, the result is handed back.
NativeReturns(t) ==
  /\ fpc = "shuffle"
  /\ res.pc[t] = "native"
  /\ res' = [res EXCEPT !.lock = Release(res.lock), !.pc[t] = "idle",
                        !.last = "returned"]
  /\ UNCHANGED <<fpc, arg, dispatcher>>

\* The native call raises: the `with` block is left by the exception.
NativeRaises(t) ==
  /\ fpc = "shuffle"
  /\ res.pc[t] = "native"
  /\ res' = [res EXCEPT !.lock = Release(res.lock), !.pc[t] = "idle",
                        !.last = "raised"]
  /\ UNCHANGED <<fpc, arg, dispatcher>>

NextShuffle ==
  \/ \E t \in Shufflers : ShuffleStringCall(t)
  \/ \E t \in Shufflers : \E w \in AlphabetLengths : ShuffleOHECall(t, w)
  \/ \E t \in Shufflers : Acquire(t)
  \/ \E t \in Shufflers : NativeReturns(t)
  \/ \E t \in Shufflers : NativeRaises(t)

SpecShuffle == InitShuffle /\ [][NextShuffle]_vars

\* The scheduler lets a thread that can take the lock take it in the end, and
\* a native call comes to an end, by return or by exception.
SpecShuffleFair ==
  /\ SpecShuffle
  /\ \A t \in 1..MaxShufflers :
       /\ WF_vars(t \in Shufflers /\ Acquire(t))
       /\ WF_vars(t \in Shufflers /\ (NativeReturns(t) \/ NativeRaises(t)))

\* ------------------------------------------------- what the claims speak of
\* The multiset of the elements of a sequence.
BagOfSeq(s) == [x \in Range(s) |-> Cardinality({ i \in DOMAIN s : s[i] = x })]

Scale(bag, n) == [x \in DOMAIN bag |-> n * bag[x]]

IsPrefix(s, t) == Len(s) <= Len(t) /\ s = SubSeq(t, 1, Len(s))

\* The index of a query (chrom, start, end, idx) and of a result (value, idx).
QueryIdx(q) == q[4]

ResultIdx(r) == r[2]

IdxOfQueries(s) == [i \in 1..Len(s) |-> QueryIdx(s[i])]

IdxOfResults(s) == [i \in 1..Len(s) |-> ResultIdx(s[i])]

\* The indices a worker holds: of the query it computes, of the results in its
\* deque and in its feeder buffer.
HeldIdx(t) ==
  (IF t.pc = "compute" THEN <<QueryIdx(t.query)>> ELSE <<>>)
    \o IdxOfResults(t.outDeque) \o IdxOfResults(t.buf)

\* The multiset of the indices held by the workers of the pool in states S.
RECURSIVE PoolIdx(_)
PoolIdx(S) ==
  IF S = {} THEN EmptyBag
  ELSE LET t == CHOOSE u \in S : TRUE
       IN  Scale(BagOfSeq(HeldIdx(t)), threads[t]) (+) PoolIdx(S \ {t})

\* The indices on their way: queued, held by a worker, or in the pipe.
InTransitIdx ==
  BagOfSeq(IdxOfQueries(SelectSeq(inQueue, IsQuery)))
    (+) PoolIdx(BagToSet(threads))
    (+) BagOfSeq(IdxOfResults(outPipe))

NoWorkerFailed == \A t \in BagToSet(threads) : t.fail = "none"

\* The caller has retrieved until nothing is outstanding, and never asked for
\* a result when nothing was.
AllRetrieved ==
  ppc = "idle" /\ inFlight = 0 /\ numInDeque = 0 /\ nEmptyPops = 0

\* C1: with no worker failure, every submitted index is, with its
\* multiplicity, either on its way, buffered in the parent or returned (none
\* lost, none answered twice), and once the caller has retrieved until
\* nothing is outstanding the multiset of returned indices equals the
\* multiset of submitted indices.
C1_ExactlyOnce ==
  NoWorkerFailed =>
    /\ BagOfSeq(IdxOfQueries(submitted))
         = InTransitIdx (+) BagOfSeq(IdxOfResults(outDeque))
                        (+) BagOfSeq(IdxOfResults(returned))
    /\ AllRetrieved =>
         BagOfSeq(IdxOfResults(returned)) = BagOfSeq(IdxOfQueries(submitted))

\* Two workers, three queries two of which share index 0, done() returned,
\* everything retrieved.
C1_Witness ==
  /\ NoWorkerFailed
  /\ numThreads = 2
  /\ doneCalled
  /\ AllRetrieved
  /\ Len(returned) = 3
  /\ Cardinality(Range(IdxOfResults(returned))) = 2

\* The (value, idx) the code computes for a submitted query.
Expected(q) == <<getCounts(q[1], q[2], q[3], BwFiles), QueryIdx(q)>>

\* Every result the parent has: buffered or returned.
ParentResults == Range(outDeque) \cup Range(returned)

\* C2: every result the parent holds or has returned carries the index of a
\* submitted query and the coverage of the region submitted with that index.
C2_IndexRoundTrip ==
  \A r \in ParentResults \cup Range(outPipe) :
    \E i \in 1..Len(submitted) :
      /\ ~GetCountsRaises(submitted[i][1], submitted[i][2], submitted[i][3], BwFiles)
      /\ r = Expected(submitted[i])

\* Two workers; the results of two queries with different regions and indices
\* came back in the order opposite to their submission.
C2_Witness ==
  /\ numThreads = 2
  /\ Len(returned) = 2
  /\ Len(submitted) >= 2
  /\ returned[1] = Expected(submitted[2])
  /\ returned[2] = Expected(submitted[1])
  /\ returned[1][1] # returned[2][1]
  /\ returned[1][2] # returned[2][2]

\* The number of sentinels in a queue.
NumSentinels(q) == Len(SelectSeq(q, LAMBDA item : ~IsQuery(item)))

\* The sentinels taken by the workers of the pool in states S.
RECURSIVE SentinelsTaken(_)
SentinelsTaken(S) ==
  IF S = {} THEN 0
  ELSE LET t == CHOOSE u \in S : TRUE
       IN  threads[t] * t.sent + SentinelsTaken(S \ {t})

\* No worker was stopped by a timeout of inQueue.get.
NoIdleTimeout == \A t \in BagToSet(threads) : t.fail # "Empty"

\* C3: done() puts exactly numThreads sentinels, behind the queries already
\* queued, so that no sentinel is taken while a query submitted before it
\* waits; no worker takes more than one; and, no worker having timed out
\* waiting, once the joins of done() have returned every worker has taken
\* exactly one sentinel.
C3_ShutdownProtocol ==
  /\ NumSentinels(inQueue) + SentinelsTaken(BagToSet(threads))
       = (IF doneCalled THEN numThreads ELSE 0)
  /\ \A i \in 1..Len(inQueue) : \A j \in 1..Len(inQueue) :
       (IsQuery(inQueue[j]) /\ ~IsQuery(inQueue[i])) => j < i
  /\ \A t \in BagToSet(threads) : t.sent <= 1
  /\ (doneCalled /\ ppc = "idle" /\ NoIdleTimeout)
       => \A t \in BagToSet(threads) : t.sent = 1

\* C4: a worker whose computation raised stays alive, and until done() is
\* called the pool keeps numThreads workers in their receive loop unless one
\* timed out waiting.
C4_FailureIsolation ==
  /\ \A t \in BagToSet(threads) : t.fail = "error" => t.pc # "stopped"
  /\ (~doneCalled /\ \A t \in BagToSet(threads) : t.fail # "Empty")
       => \A t \in BagToSet(threads) : t.pc # "stopped"

\* C5: the input channel is bounded: it has a capacity, which the number of
\* items waiting in it never exceeds.
C5_BoundedInput == InQueueMaxsize > 0 /\ Len(inQueue) <= InQueueMaxsize

\* The queries on their way: queued, held by a worker, or in the pipe.
NumInTransit == BagCardinality(InTransitIdx)

\* C6: inFlight is the number of addQuery calls minus the number of results
\* moved into the parent's buffer, it is never negative, and with no worker
\* failure it is the number of queries in the input channel, held by a worker
\* or in the output channel; the parent inside addQuery's loop can always
\* take its next step without waiting.
C6_InFlight ==
  /\ inFlight = Len(submitted) - nMoved
  /\ inFlight >= 0
  /\ NoWorkerFailed => inFlight = NumInTransit
  /\ ppc = "drain" => ENABLED (DrainOne \/ DrainEnd)

\* Two results moved by addQuery's loop, one query still with a worker.
C6_Witness ==
  /\ NoWorkerFailed
  /\ ppc = "drain"
  /\ nMoved = 2
  /\ numInDeque = 2
  /\ inFlight = 1
  /\ \E t \in BagToSet(threads) : t.pc = "compute"

\* C7, as the spec states it: in a 1-worker pool the queries with indices
\* 0, 1, 2 come back in the order 2, 1, 0.
C7_ReverseOrder ==
  (numThreads = 1 /\ IdxOfQueries(submitted) = <<0, 1, 2>> /\ Len(returned) = 3)
    => IdxOfResults(returned) = <<2, 1, 0>>

\* C7, amended: in a 1-worker pool the queries with indices 0, 1, 2 come back
\* in the order 0, 1, 2, whatever the time each takes.
C7_SubmissionOrder ==
  (numThreads = 1 /\ IdxOfQueries(submitted) = <<0, 1, 2>> /\ Len(returned) = 3)
    => IdxOfResults(returned) = <<0, 1, 2>>

\* One worker has answered the queries 0, 1, 2.
C7_Witness ==
  /\ numThreads = 1
  /\ IdxOfQueries(submitted) = <<0, 1, 2>>
  /\ IdxOfResults(returned) = <<0, 1, 2>>

\* C8, as the spec states it: getCounts returns the sum over the tracks of the
\* sum of the absolute values of the per-base values, NaN counted as 0.
C8_SumOfAbs ==
  fpc = "done" => res = TotalDoc(arg[1][1], arg[1][2], arg[1][3], arg[2])

\* The segments of a result that contain position p of chromosome c.
SegmentsAt(segments, c, p) ==
  { i \in 1..Len(segments) :
      segments[i][1] = c /\ segments[i][2] <= p /\ p < segments[i][3] }

ValidBase(b) == b # "N" /\ b # "n"

\* C9: for a non-empty sequence the segments _findNonN returns are the
\* maximal runs of bases that are neither N nor n: a base is valid iff it
\* lies in exactly one segment (an invalid one lies in none), every segment
\* is a non-empty interval of the sequence on the chromosome given, and each
\* segment ends before the next begins with a missing base at its end.
C9_SegmentInvariant ==
  fpc = "done" =>
    LET inSeq == arg[1]
        n == Len(inSeq)
    IN  /\ \A p \in 0..(n - 1) :
             Cardinality(SegmentsAt(res, arg[2], p))
               = (IF ValidBase(inSeq[p + 1]) THEN 1 ELSE 0)
        /\ \A i \in 1..Len(res) :
             /\ res[i][1] = arg[2]
             /\ 0 <= res[i][2] /\ res[i][2] < res[i][3] /\ res[i][3] <= n
             /\ res[i][2] = 0 \/ ~ValidBase(inSeq[res[i][2]])
             /\ res[i][3] = n \/ ~ValidBase(inSeq[res[i][3] + 1])
        /\ \A i \in 1..(Len(res) - 1) :
             /\ res[i][3] < res[i + 1][2]
             /\ ~ValidBase(inSeq[res[i][3] + 1])

\* A sequence with two runs of valid bases, an n and an N, cut in two segments.
C9_Witness ==
  /\ fpc = "done"
  /\ arg[1] = <<"n", "A", "A", "N", "A">>
  /\ res = << <<"chr1", 1, 3>>, <<"chr1", 4, 5>> >>

\* Position p of chromosome c is inside a blacklist interval of c.
Blacklisted(blacklist, c, p) ==
  \E i \in 1..Len(blacklist) :
    blacklist[i][1] = c /\ blacklist[i][2] <= p /\ p < blacklist[i][3]

\* C10: a position of a chromosome lies in a returned segment (and then in
\* exactly one) iff its base is not N and no blacklist interval of that same
\* chromosome covers it; every segment lies inside its chromosome, whatever
\* the ends of the blacklist intervals.
C10_BlacklistAsMissing ==
  fpc = "done" =>
    LET genome == arg[1]
        blacklist == arg[2]
    IN  /\ \A k \in 1..Len(genome) : \A p \in 0..(Len(genome[k][2]) - 1) :
             Cardinality(SegmentsAt(res, genome[k][1], p))
               = (IF /\ ValidBase(genome[k][2][p + 1])
                     /\ ~Blacklisted(blacklist, genome[k][1], p)
                    THEN 1 ELSE 0)
        /\ \A i \in 1..Len(res) :
             /\ res[i][1] \in Range(References(genome))
             /\ 0 <= res[i][2] /\ res[i][2] < res[i][3]
             /\ res[i][3] <= Len(Fetch(genome, res[i][1]))

\* chr1 is AA and chr2 is ANA; the blacklist has two intervals of chr1, one
\* that runs past its end and one that starts at its end: chr1 keeps its
\* first base and chr2 every valid base.
C10_Witness ==
  /\ fpc = "done"
  /\ arg[1] = << <<"chr2", <<"A", "N", "A">> >>, <<"chr1", <<"A", "A">> >> >>
  /\ arg[2] = << <<"chr1", 1, 3>>, <<"chr1", 2, 3>> >>
  /\ res = << <<"chr1", 0, 1>>, <<"chr2", 0, 1>>, <<"chr2", 2, 3>> >>

\* The regions tileSegments returned that were cut from segment j.
RegionsOf(j) == { k \in 1..Len(res.regions) : res.from[k] = j }

\* C11: when tileSegments returns, every region is outputLength wide, on the
\* chromosome of the segment it was cut from, and inside that segment with
\* padding bases taken off each side, hence inside the segment itself.
C11_TilingContainment ==
  fpc = "done" =>
    LET padding == Padding(arg.inputLength, arg.outputLength)
    IN  \A k \in 1..Len(res.regions) :
          LET r == res.regions[k]
              s == arg.segments[res.from[k]]
          IN  /\ r[3] - r[2] = arg.outputLength
              /\ r[1] = s[1]
              /\ s[2] + padding <= r[2] /\ r[3] <= s[3] - padding
              /\ s[2] <= r[2] /\ r[3] <= s[3]

\* A call with padding 1 returned regular regions and an additional one for
\* a segment, with a second segment tiled after it.
C11_Witness ==
  /\ fpc = "done"
  /\ Padding(arg.inputLength, arg.outputLength) = 1
  /\ Len(arg.segments) = 2
  /\ \E k \in RegionsOf(1) : res.isTail[k]
  /\ Cardinality(RegionsOf(1)) >= 3
  /\ RegionsOf(2) # {}

\* The last region cut from segment j.
LastRegionOf(j) == CHOOSE k \in RegionsOf(j) : \A m \in RegionsOf(j) : m <= k

\* C12: with spacing >= 0, every segment whose shrunk width is at least
\* outputLength has regions, the last of them ends at most spacing bases
\* before the end of the shrunk segment, and exactly at it when the
\* additional region was placed.
C12_TailCoverage ==
  (fpc = "done" /\ arg.spacing >= 0) =>
    \A n \in 1..Len(res.shrunk) :
      LET j == res.shrunkFrom[n]
          gap == res.shrunk[n][3] - res.regions[LastRegionOf(j)][3]
      IN  /\ RegionsOf(j) # {}
          /\ 0 <= gap /\ gap <= arg.spacing
          /\ res.isTail[LastRegionOf(j)] => gap = 0
          /\ (\E k \in RegionsOf(j) : res.isTail[k]) => res.isTail[LastRegionOf(j)]

\* A segment tiled with a positive spacing and no additional region: the
\* regular regions stop short of the end; and, in the same call, a segment
\* that got its additional region.
C12_Witness ==
  /\ fpc = "done"
  /\ arg.spacing > 0
  /\ Len(res.shrunk) = 2
  /\ \A k \in RegionsOf(res.shrunkFrom[1]) : ~res.isTail[k]
  /\ res.shrunk[1][3] - res.regions[LastRegionOf(res.shrunkFrom[1])][3] = arg.spacing
  /\ \E k \in RegionsOf(res.shrunkFrom[2]) : res.isTail[k]

\* C13: the docstring's example (inputLength 10, outputLength 6, spacing 5,
\* the segment [0, 30)) returns [2, 8), [13, 19), [22, 28), in that order.
C13_TilingScenario ==
  (fpc = "done" /\ arg = TilingExample) =>
    res.regions = << <<"chr1", 2, 8>>, <<"chr1", 13, 19>>, <<"chr1", 22, 28>> >>

\* The example has returned, its third region being the additional one.
C13_Witness ==
  /\ fpc = "done"
  /\ arg = TilingExample
  /\ Len(res.regions) = 3
  /\ res.isTail = <<FALSE, FALSE, TRUE>>

\* C14, as the spec states it: the inputLength-wide window that
\* resize(mode="center") puts around a returned region lies inside the N-free
\* segment the region was cut from.
C14_InputInsideSegment ==
  fpc = "done" =>
    \A k \in 1..Len(res.regions) :
      LET r == res.regions[k]
          s == arg.segments[res.from[k]]
          b == ResizedBounds(r[2], r[3], "center", arg.inputLength)
      IN  s[2] <= b[1] /\ b[2] <= s[3]

\* C15: an interval resize returns is width long, has the chromosome, name,
\* score and strand of the input, is an object that did not exist before the
\* call, and the input interval is as it was.
C15_ResizeShape ==
  (fpc = "done" /\ res.kind = "Interval") =>
    LET old == arg.heap[arg.interval]
        new == res.heap[res.ref]
    IN  /\ new.end - new.start = arg.width
        /\ new.chrom = old.chrom /\ new.name = old.name
        /\ new.score = old.score /\ new.strand = old.strand
        /\ res.ref \notin DOMAIN arg.heap
        /\ res.heap[arg.interval] = old

\* Mode "center" returned an interval whose start and end both differ from
\* the input's.
C15_Witness ==
  /\ fpc = "done"
  /\ res.kind = "Interval"
  /\ arg.mode = "center"
  /\ res.heap[res.ref].start # arg.heap[arg.interval].start
  /\ res.heap[res.ref].end # arg.heap[arg.interval].end
  /\ res.heap[res.ref].strand = "-"

\* C16, as the spec states it: an interval returned in mode "start" starts
\* where the input starts and ends width later.
C16_StartPreserved ==
  (fpc = "done" /\ res.kind = "Interval" /\ arg.mode = "start") =>
    /\ res.heap[res.ref].start = arg.heap[arg.interval].start
    /\ res.heap[res.ref].end = arg.heap[arg.interval].start + arg.width

\* C17, as the spec states it: resize returns False exactly when the resized
\* interval starts before 0 or ends after the end of the chromosome.
C17_EdgeCheck ==
  fpc = "done" =>
    LET b == ResizedBounds(arg.heap[arg.interval].start,
                           arg.heap[arg.interval].end, arg.mode, arg.width)
    IN  (res.kind = "False") <=> (b[1] < 0 \/ b[2] > arg.referenceLength)

\* The kinds of the events so far.
EventKinds == { res.events[k][1] : k \in 1..Len(res.events) }

\* What the spec counts as work: the cutoff computation, the write of the
\* quantile JSON, the scan.
Work == {"seqletCutoffs", "writeQuantileJson", "scanPatterns"}

\* C18: a motifScan config with both seqlet-cutoff-settings and
\* seqlet-cutoff-json never gets past the check of its sources: main never
\* returns, and seqletCutoffs is not called, no quantile JSON is written and
\* scanPatterns is not started, at any point of the run.
C18_ExclusiveSources ==
  (arg.program = "motifScan"
     /\ "seqlet-cutoff-settings" \in DOMAIN arg.config
     /\ "seqlet-cutoff-json" \in DOMAIN arg.config)
    => /\ res.events = <<>>
       /\ fpc \in {"call", "sources", "raised"}
       /\ fpc = "raised" => res.error \in {"AssertionError", "KeyError"}

\* A config with both sources, complete otherwise, has failed the assertion.
C18_Witness ==
  /\ arg.program = "motifScan"
  /\ "seqlet-cutoff-json" \in DOMAIN arg.config
  /\ "seqlet-cutoff-settings" \in DOMAIN arg.config
  /\ FirstMissing(arg.config["seqlet-cutoff-settings"], CutoffArgKeys) = <<>>
  /\ "scan-settings" \in DOMAIN arg.config
  /\ FirstMissing(arg.config["scan-settings"], ScanArgKeys) = <<>>
  /\ fpc = "raised"
  /\ res.error = "AssertionError"

\* The motifScan config lacks a key the spec calls required.
LacksRequiredKey(config) ==
  \/ /\ "seqlet-cutoff-settings" \notin DOMAIN config
     /\ "seqlet-cutoff-json" \notin DOMAIN config
  \/ "scan-settings" \notin DOMAIN config
  \/ /\ "scan-settings" \in DOMAIN config
     /\ FirstMissing(config["scan-settings"], ScanArgKeys) # <<>>

\* C19, as the spec states it: a motifScan config that lacks a required key
\* never returns, and no work is done at any point of its run.
C19_MissingKeyFailsFast ==
  (arg.program = "motifScan" /\ LacksRequiredKey(arg.config))
    => /\ EventKinds \cap Work = {}
       /\ fpc # "done"

\* The run has ended, one way or the other.
Ended == fpc \in {"done", "raised"}

\* The cutoff settings have every key but those the spec gives a default or
\* calls optional, and lack at least one of these.
OmitsDefaulted(cutoffConfig) ==
  /\ \A k \in Range(CutoffArgKeys) \ {"trim-threshold", "trim-padding", "modisco-contrib-h5"} :
       k \in DOMAIN cutoffConfig
  /\ \E k \in {"trim-threshold", "trim-padding", "modisco-contrib-h5"} :
       k \notin DOMAIN cutoffConfig

\* The value seqletCutoffs gets for key k if absent keys take their default.
Defaulted(cutoffConfig, k) ==
  IF k \in DOMAIN cutoffConfig THEN cutoffConfig[k]
  ELSE CASE k = "trim-threshold" -> "0.3"
         [] k = "trim-padding" -> "1"
         [] k = "modisco-contrib-h5" -> None

\* The run gets to the cutoff computation.
ReachesCutoffs ==
  /\ "verbosity" \in DOMAIN arg.config
  /\ arg.program = "motifScan" =>
       /\ "seqlet-cutoff-settings" \in DOMAIN arg.config
       /\ "seqlet-cutoff-json" \notin DOMAIN arg.config

\* C20, as the spec states it: when the cutoff settings omit trim-threshold,
\* trim-padding or modisco-contrib-h5, a run that has ended has called
\* seqletCutoffs, with 0.3, 1 and no contribution file in their places.
C20_CutoffDefaults ==
  (Ended /\ ReachesCutoffs /\ OmitsDefaulted(CutoffConfig))
    => \E k \in 1..Len(res.events) :
         /\ res.events[k][1] = "seqletCutoffs"
         /\ \A a \in 1..Len(CutoffArgKeys) :
              res.events[k][2][a] = Defaulted(CutoffConfig, CutoffArgKeys[a])

\* The regions tileSegments has cut from segment j so far, in the order it
\* appended them.
WindowsOf(j) ==
  LET ks == RegionsOf(j)
      lo == CHOOSE k \in ks : \A m \in ks : k <= m
  IN  [n \in 1..Cardinality(ks) |-> res.regions[lo + n - 1]]

\* The spec's placement rule for the shrunk segment s and step > 0: the
\* regular windows that do not extend past the end of s, then the
\* right-aligned window when the next regular window would start before the
\* end of s and the right-aligned window is not in the list yet.
PlacementRule(s, outputLength, step) ==
  LET a == s[2]
      b == s[3]
      K == Cardinality({ k \in 0..(b - a) : a + k * step + outputLength <= b })
      regular == [n \in 1..K |->
                    <<s[1], a + (n - 1) * step, a + (n - 1) * step + outputLength>>]
      tail == <<s[1], b - outputLength, b>>
  IN  IF a + K * step < b /\ tail \notin Range(regular)
        THEN Append(regular, tail)
        ELSE regular

\* C22: when tileSegments returns and spacing + outputLength > 0, the
\* regions cut from every shrunk segment are, in order, exactly the list the
\* placement rule gives: the regular windows inside the segment, then at
\* most one right-aligned window.
C22_PlacementRule ==
  (fpc = "done" /\ arg.spacing + arg.outputLength > 0) =>
    \A n \in 1..Len(res.shrunk) :
      WindowsOf(res.shrunkFrom[n])
        = PlacementRule(res.shrunk[n], arg.outputLength,
                        arg.spacing + arg.outputLength)

\* A call with overlapping windows returned; for its first segment the loop
\* stopped at a window that ends exactly at the end of the segment, which
\* was then placed as the last region, and two regular regions precede it.
C22_Witness ==
  /\ fpc = "done"
  /\ arg.spacing < 0 /\ arg.spacing + arg.outputLength > 0
  /\ Len(res.shrunk) >= 1
  /\ LET j == res.shrunkFrom[1]
         w == WindowsOf(j)
     IN  /\ Len(w) = 3
         /\ res.isTail[LastRegionOf(j)]
         /\ w[3][2] = res.shrunk[1][2] + 2 * (arg.spacing + arg.outputLength)

\* C23: when tileSegments returns, a segment has no region if and only if
\* its width with padding bases taken off each side is below outputLength;
\* a segment that shrinks to outputLength or more has at least one.
C23_ShortSegmentsDiscarded ==
  fpc = "done" =>
    LET padding == (arg.inputLength - arg.outputLength) \div 2
    IN  \A j \in 1..Len(arg.segments) :
          LET s == arg.segments[j]
              width == (s[3] - padding) - (s[2] + padding)
          IN  /\ RegionsOf(j) = {} <=> width < arg.outputLength
              /\ width >= arg.outputLength => Cardinality(RegionsOf(j)) >= 1

\* A call with padding 1 returned: its first segment shrank to 1 base and
\* has no region, its second shrank to exactly outputLength and has one.
C23_Witness ==
  /\ fpc = "done"
  /\ arg.inputLength = 4 /\ arg.outputLength = 2
  /\ arg.segments = << <<"chr1", 0, 3>>, <<"chr2", 5, 9>> >>
  /\ RegionsOf(1) = {}
  /\ Cardinality(RegionsOf(2)) = 1

\* C25, as the spec states it, in the form a terminating loop must satisfy:
\* whenever the window-placing loop is about to place another region,
\* the next start lies after the present one. Where it fails with a step of
\* zero or less, endPos never grows again and `endPos < s.end` holds for
\* ever. The hypothesis keeps to spacing >= -outputLength, where no
\* position is ever negative.
C25_LoopAdvances ==
  (/\ fpc = "while"
   /\ res.endPos < CurSegment[3]
   /\ arg.spacing >= -arg.outputLength)
    => NextStart(res.startPos, arg.spacing, arg.outputLength) > res.startPos

\* C29: with spacing + outputLength > 0, the regions cut from one segment
\* are pairwise distinct at every point of the call, the right-aligned last
\* region included.
C29_NoDuplicateWindows ==
  (fpc \in {"for", "while", "done"} /\ arg.spacing + arg.outputLength > 0) =>
    \A k, m \in 1..Len(res.regions) :
      (k # m /\ res.from[k] = res.from[m]) => res.regions[k] # res.regions[m]

\* A call with overlapping windows returned, and the right-aligned last
\* region of a segment overlaps the regular region before it.
C29_Witness ==
  /\ fpc = "done"
  /\ arg.spacing + arg.outputLength > 0
  /\ \E k \in 2..Len(res.regions) :
       /\ res.isTail[k]
       /\ res.from[k - 1] = res.from[k]
       /\ res.regions[k - 1][3] > res.regions[k][2]
       /\ res.regions[k - 1] # res.regions[k]

\* The kinds of the events of the run, in the order they happened.
KindsInOrder == [k \in 1..Len(res.events) |-> res.events[k][1]]

\* C30: when motifScan.main has returned, the pattern table came from one
\* source only, computed or loaded; a computed table was written to the
\* quantile JSON exactly when the settings name one, after the computation
\* and before the scan; scanPatterns was called once, last, with the table
\* of that source, which is the table that was written.
C30_StepOrdering ==
  (arg.program = "motifScan" /\ fpc = "done") =>
    LET n == Len(res.events)
        scan == res.events[n]
    IN  /\ KindsInOrder \in { <<"seqletCutoffs", "writeQuantileJson", "scanPatterns">>,
                              <<"seqletCutoffs", "scanPatterns">>,
                              <<"loadCutoffJson", "scanPatterns">> }
        /\ KindsInOrder[1] = "seqletCutoffs" =>
             /\ scan[3] = "computed"
             /\ n = 3 <=> "quantile-json" \in DOMAIN arg.config["seqlet-cutoff-settings"]
             /\ n = 3 =>
                  /\ res.events[2][2] = arg.config["seqlet-cutoff-settings"]["quantile-json"]
                  /\ res.events[2][3] = scan[3]
        /\ KindsInOrder[1] = "loadCutoffJson" =>
             /\ scan[3] = "loaded"
             /\ res.events[1][2] = arg.config["seqlet-cutoff-json"]

\* A run of motifScan.main has returned after computing the cutoffs, writing
\* the quantile JSON and scanning.
C30_Witness ==
  /\ arg.program = "motifScan"
  /\ fpc = "done"
  /\ Len(res.events) = 3
  /\ res.events[2][1] = "writeQuantileJson"
  /\ res.events[3][1] = "scanPatterns"
  /\ res.events[3][3] = "computed"

\* C24: in a 1-worker pool where no worker has failed, the results getResult
\* has returned so far are the results of the first queries submitted, one
\* for one and in the order of submission, at every point of every run.
C24_SingleWorkerFifo ==
  (numThreads = 1 /\ NoWorkerFailed) =>
    /\ Len(returned) <= Len(submitted)
    /\ \A k \in 1..Len(returned) : returned[k] = Expected(submitted[k])

\* One worker has answered three queries, two of which carry the same index;
\* one of the results waited in the parent's deque while the next arrived.
C24_Witness ==
  /\ numThreads = 1
  /\ NoWorkerFailed
  /\ submitted = << RegionA \o <<0>>, RegionB \o <<0>>, RegionA \o <<2>> >>
  /\ Len(returned) = 3
  /\ nMoved >= 2

\* C26, as the spec states it: a worker that has left its receive loop has
\* taken a sentinel, and until done() is called no worker has left it.
C26_StopOnlyOnShutdown ==
  /\ \A t \in BagToSet(threads) : t.pc = "stopped" => t.sent = 1
  /\ ~doneCalled => \A t \in BagToSet(threads) : t.pc # "stopped"

\* C27, as the spec states it, in the form a run can refute: while done()
\* waits in its joins something can still happen, a worker step, a write of
\* a feeder thread or the return of the joins; a state where nothing can is
\* a done() that never returns.
C27_DoneReturns == ppc = "join" => ENABLED Next

\* C28, as the spec states it: numInDeque is the number of results in the
\* parent's deque and is never negative, whatever calls were made.
C28_BufferInvariant == numInDeque = Len(outDeque) /\ numInDeque >= 0

\* C21: at every moment at most one thread is inside the native shuffling
\* call, and the lock is held exactly while one is, so it is free again after
\* a return and after an exception; and every thread that waits for the lock
\* gets into the native call in the end.
C21_ShuffleMutex ==
  /\ [](/\ Cardinality(InNative) <= 1
        /\ res.lock <=> Cardinality(InNative) = 1)
  /\ \A t \in 1..MaxShufflers :
       (t \in Shufflers /\ res.pc[t] = "lock")
         ~> (t \in Shufflers /\ res.pc[t] = "native")

\* One thread is in libushuffle.shuffleOhe after another thread's native call
\* raised, and a third waits for the lock to call libushuffle.shuffleStr.
C21_Witness ==
  /\ fpc = "shuffle"
  /\ res.last = "raised"
  /\ \E u, v \in Shufflers :
       /\ res.pc[u] = "native" /\ res.fn[u] = "shuffleOhe"
       /\ res.pc[v] = "lock" /\ res.fn[v] = "shuffleStr"
       /\ res.lock

====
